---- MODULE Spec2Model ----
(***************************************************************************)
(* The incremental ingestion pipeline of modules/utils/fetchdata.py:       *)
(* CivitaiDataFetcher's cursor store (_save_cursor, _get_saved_state), its *)
(* validator (_process_item), its store writer (_check_duplicate,          *)
(* _store_in_qdrant) and the orchestrating loop (fetch_and_store).         *)
(*                                                                         *)
(* The state file and the vector store are the persistent state; a run of  *)
(* the process is a sequence of loop iterations, each one action whose     *)
(* inputs (the page the source returns, the outcome of each duplicate      *)
(* lookup, the shape the embedder returns, I/O faults, the kill signal)    *)
(* are chosen by the environment.                                          *)
(***************************************************************************)
EXTENDS Integers, Sequences, FiniteSets, TLC

VARIABLES
    file,             \* content of self.temp_file (modules/utils/tempfile.json)
    store,            \* the Qdrant collection: point id -> point
    pc,               \* where the process is: idle, running, stored, done, failed, killed
    cursor,           \* fetch_and_store's local `cursor`
    prev_processed,   \* fetch_and_store's local `prev_processed`
    total_processed,  \* fetch_and_store's local `total_processed`
    target_count,     \* fetch_and_store's argument
    request,          \* the params of the last page request sent in this run
    outcome,          \* what the last step of the run did
    unsaved,          \* pages fetched in this run since the state file last took a cursor
    pending,          \* between _store_in_qdrant and _save_cursor: len(processed_records)
    wb,               \* the last direct calls of _store_in_qdrant (write_batch)
    cs,               \* the last direct calls of the cursor store (save / load)
    vc,               \* the last direct call of _process_item
    page,             \* while pc = "stored": the page whose records were just stored
    cfg,              \* the last direct construction of CivitaiDataFetcher
    session_state,    \* the refiner page's st.session_state
    clicked           \* the last widget handler the refiner page ran

vars == <<file, store, pc, cursor, prev_processed, total_processed,
          target_count, request, outcome, unsaved, pending, wb, cs, vc, page,
          cfg, session_state, clicked>>

(***************************************************************************)
(* Bounds of the model.                                                    *)
(***************************************************************************)
MaxId == 1          \* point ids are 1..MaxId
MaxPageLen == 2     \* items in one page of the source
MaxTarget == 2      \* --target is 0..MaxTarget
MaxTotal == 1       \* a run starts only while the persisted total is <= MaxTotal
MaxUnsaved == 2     \* `unsaved` saturates here
MaxInt == 3         \* integers handed to the cursor store directly are 0..MaxInt
MaxRequested == 500 \* the largest --target of the page-sizing runs
MaxBatches == 3     \* sub-batches one _store_in_qdrant call is made to need

(***************************************************************************)
(* Program constants.                                                      *)
(***************************************************************************)
BATCH_SIZE == 200
batch_size == 50
ALLOWED_MODELS == {"Illustrious", "Flux.1 D", "Pony"}
REQUIRED_SECRETS == {"CIVITAI_API_KEY", "QDRANT_URL", "QDRANT_API_KEY", "COLLECTION_NAME"}

\* min as a mutant: the second argument, whatever the first is.
MinUncapped(a, b) == b

Min(a, b) == IF a <= b THEN a ELSE b

(***************************************************************************)
(* Python values, as far as the pipeline tells them apart.                 *)
(***************************************************************************)
PyNone == [t |-> "none"]
PyMissing == [t |-> "missing"]      \* dict.get on a key that is not there
PyOther == [t |-> "other"]          \* a list, a float, a dict where none is expected
PyStr(s) == [t |-> "str", s |-> s]
PyInt(n) == [t |-> "int", n |-> n]

\* Python truthiness: `if x`, `if not x`.
Truthy(v) ==
    CASE v.t = "str" -> v.s # ""
      [] v.t = "int" -> v.n # 0
      [] v.t = "other" -> TRUE
      [] OTHER -> FALSE

\* dict.get(key, default): the default stands in for a missing key only.
GetOr(v, default) == IF v = PyMissing THEN default ELSE v

Digits == <<"0", "1", "2", "3", "4", "5", "6", "7", "8", "9">>
DigitStrings == {Digits[i] : i \in 1..Len(Digits)}

NegDigits == <<"-1", "-2", "-3", "-4", "-5", "-6", "-7", "-8", "-9">>
NegDigitStrings == {NegDigits[i] : i \in 1..Len(NegDigits)}

\* str(n) of a one-digit integer.
StrOfInt(n) == IF n < 0 THEN NegDigits[0 - n] ELSE Digits[n + 1]

\* int(s) of a string: [ok |-> FALSE] stands for ValueError.
IntOfStr(s) ==
    IF s \in DigitStrings
    THEN [ok |-> TRUE, n |-> (CHOOSE i \in 1..Len(Digits) : Digits[i] = s) - 1]
    ELSE IF s \in NegDigitStrings
    THEN [ok |-> TRUE, n |-> 0 - (CHOOSE i \in 1..Len(NegDigits) : NegDigits[i] = s)]
    ELSE [ok |-> FALSE, n |-> 0]

\* str(v)
PyStrOf(v) ==
    CASE v.t = "str" -> v.s
      [] v.t = "int" -> StrOfInt(v.n)
      [] v.t = "none" -> "None"
      [] OTHER -> "[]"

\* int(v): [ok |-> FALSE] stands for ValueError / TypeError.
PyIntOf(v) ==
    CASE v.t = "int" -> [ok |-> TRUE, n |-> v.n]
      [] v.t = "str" -> IntOfStr(v.s)
      [] OTHER -> [ok |-> FALSE, n |-> 0]

(***************************************************************************)
(* The state file.  Its content is absent, text that is not valid JSON     *)
(* (what open(..., 'w') leaves before json.dump has finished: an empty or  *)
(* partial file), valid JSON that is not an object, or a JSON object whose *)
(* members are JSON tokens.                                                *)
(***************************************************************************)
Absent == [k |-> "absent"]
InvalidJson == [k |-> "invalid"]
JsonNonObject == [k |-> "nonobject"]
JsonObject(c, n) == [k |-> "object", cursor |-> c, total_processed |-> n]

JNull == [j |-> "null"]
JAbsent == [j |-> "absent"]            \* the object has no such member
JString(s) == [j |-> "string", s |-> s]
JNumber(n) == [j |-> "number", n |-> n]

\* json.dump of one value
JsonDump(v) ==
    CASE v.t = "str" -> JString(v.s)
      [] v.t = "int" -> JNumber(v.n)
      [] OTHER -> JNull

\* json.load of one member, as dict.get sees it
JsonLoad(tok) ==
    CASE tok.j = "string" -> PyStr(tok.s)
      [] tok.j = "number" -> PyInt(tok.n)
      [] tok.j = "null" -> PyNone
      [] OTHER -> PyMissing

SaveFaults == {"none", "open_fails", "write_fails", "kill"}

\* _save_cursor as a mutant: the file is opened for append, so it keeps what it held.
SaveCursorStale(f, c, n, fault) ==
    IF f = Absent /\ fault = "none" THEN JsonObject(JsonDump(c), JsonDump(PyInt(n)))
    ELSE f

\* _save_cursor(cursor, total_processed): the file after the call.  makedirs or
\* open raising leaves the file alone; once open(..., 'w') has truncated it, a
\* failing write (swallowed by the except) or a kill leaves an empty or
\* partial file.
SaveCursor(f, c, n, fault) ==
    CASE fault = "none" -> JsonObject(JsonDump(c), JsonDump(PyInt(n)))
      [] fault = "open_fails" -> f
      [] OTHER -> InvalidJson

EmptyState == <<"", 0>>

\* The try body of _get_saved_state on a file that json.load accepts:
\* [ok |-> FALSE] stands for the exception the outer except swallows.
ParseState(f) ==
    IF f.k # "object" THEN [ok |-> FALSE, state |-> EmptyState]
    ELSE LET c == PyStrOf(GetOr(JsonLoad(f.cursor), PyStr("")))
             n == PyIntOf(GetOr(JsonLoad(f.total_processed), PyInt(0)))
         IN  IF n.ok THEN [ok |-> TRUE, state |-> <<c, n.n>>]
             ELSE [ok |-> FALSE, state |-> EmptyState]

\* _get_saved_state as a mutant: the saved cursor is dropped.
GetSavedStateNoCursor(f, readFails, fault) ==
    [state |-> IF ~readFails /\ ParseState(f).ok
               THEN <<"", ParseState(f).state[2]>> ELSE EmptyState,
     file |-> IF ~readFails /\ f = InvalidJson
              THEN SaveCursor(f, PyStr(""), 0, fault) ELSE f,
     killed |-> ~readFails /\ f = InvalidJson /\ fault = "kill"]

\* _get_saved_state(): the pair it returns and the file it leaves.  Only a
\* JSONDecodeError resets the file; every other exception is swallowed by the
\* outer except and the file stays as it is.
GetSavedState(f, readFails, fault) ==
    IF readFails \/ f = Absent THEN [state |-> EmptyState, file |-> f, killed |-> FALSE]
    ELSE IF f = InvalidJson
    THEN [state |-> EmptyState, file |-> SaveCursor(f, PyStr(""), 0, fault),
          killed |-> fault = "kill"]
    ELSE [state |-> ParseState(f).state, file |-> f, killed |-> FALSE]

(***************************************************************************)
(* The constructor.  `secrets` gives each required setting its value:      *)
(* PyMissing where st.secrets has no such key, PyNone where os.getenv      *)
(* finds no such variable, or a string.                                    *)
(***************************************************************************)
\* Lines 48-51: the settings that are not there or are falsy.
MissingSecrets(secrets) ==
    {k \in REQUIRED_SECRETS : secrets[k] = PyMissing \/ ~Truthy(secrets[k])}

\* __init__ as a mutant: the state file is initialised before the settings
\* are validated.
ConstructFetcherLate(f, secrets, fault) ==
    [raised |-> MissingSecrets(secrets) # {},
     file |-> IF f = Absent THEN SaveCursor(f, PyStr(""), 0, fault) ELSE f]

\* __init__: ValueError (raised) when a setting is missing, before anything
\* else is done; otherwise the state file is created if it is not there.
ConstructFetcher(f, secrets, fault) ==
    IF MissingSecrets(secrets) # {}
    THEN [raised |-> TRUE, file |-> f]
    ELSE [raised |-> FALSE,
          file |-> IF f = Absent THEN SaveCursor(f, PyStr(""), 0, fault) ELSE f]

\* Every required setting has a value.
GoodSecrets == [k \in REQUIRED_SECRETS |-> PyStr("set")]

(***************************************************************************)
(* The validator, _process_item.  A raw item is PyOther (not a dict) or a  *)
(* dict whose members are Python values; meta is a dict with a prompt, or  *)
(* any other value.                                                        *)
(***************************************************************************)
RawItem(id, baseModel, meta) ==
    [t |-> "dict", id |-> id, baseModel |-> baseModel, meta |-> meta]
Meta(prompt) == [t |-> "dict", prompt |-> prompt]

Record(id, prompt, model) == [id |-> id, prompt |-> prompt, model_name |-> model]
NoRecord == Record(0, PyStr(""), "")

\* _process_item as a mutant: the test of the prompt (line 157) is left out.
ProcessItemAnyPrompt(item) ==
    LET rejected == [ok |-> FALSE, rec |-> NoRecord]
    IN  IF item.t # "dict" THEN rejected
        ELSE IF ~Truthy(GetOr(item.id, PyNone)) THEN rejected
        ELSE LET item_id == IntOfStr(PyStrOf(item.id))
                 base_model == GetOr(item.baseModel, PyNone)
                 meta == GetOr(item.meta, PyNone)
             IN  IF ~item_id.ok THEN rejected
                 ELSE IF ~Truthy(base_model) THEN rejected
                 ELSE IF ~(base_model.t = "str" /\ base_model.s \in ALLOWED_MODELS)
                      THEN rejected
                 ELSE IF meta.t # "dict" THEN rejected
                 ELSE [ok |-> TRUE,
                       rec |-> Record(item_id.n, GetOr(meta.prompt, PyNone), base_model.s)]

\* _process_item as a mutant: the test against ALLOWED_MODELS (line 145) is
\* left out.
ProcessItemAnyModel(item) ==
    LET rejected == [ok |-> FALSE, rec |-> NoRecord]
    IN  IF item.t # "dict" THEN rejected
        ELSE IF ~Truthy(GetOr(item.id, PyNone)) THEN rejected
        ELSE LET item_id == IntOfStr(PyStrOf(item.id))
                 base_model == GetOr(item.baseModel, PyNone)
                 meta == GetOr(item.meta, PyNone)
             IN  IF ~item_id.ok THEN rejected
                 ELSE IF ~Truthy(base_model) THEN rejected
                 ELSE IF meta.t # "dict" THEN rejected
                 ELSE IF ~Truthy(GetOr(meta.prompt, PyNone)) THEN rejected
                 ELSE [ok |-> TRUE,
                       rec |-> Record(item_id.n, meta.prompt, PyStrOf(base_model))]

\* _process_item(item): [ok |-> FALSE] is the None it returns on rejection.
\* The record's url, negative_prompt, created_at and meta are passed through
\* and read by nothing in the pipeline; they are left out.
ProcessItem(item) ==
    LET rejected == [ok |-> FALSE, rec |-> NoRecord]
    IN  IF item.t # "dict" THEN rejected
        ELSE IF ~Truthy(GetOr(item.id, PyNone)) THEN rejected
        ELSE LET item_id == IntOfStr(PyStrOf(item.id))
                 base_model == GetOr(item.baseModel, PyNone)
                 meta == GetOr(item.meta, PyNone)
             IN  IF ~item_id.ok THEN rejected
                 ELSE IF ~Truthy(base_model) THEN rejected
                 ELSE IF ~(base_model.t = "str" /\ base_model.s \in ALLOWED_MODELS)
                      THEN rejected
                 ELSE IF meta.t # "dict" THEN rejected
                 ELSE IF ~Truthy(GetOr(meta.prompt, PyNone)) THEN rejected
                 ELSE [ok |-> TRUE,
                       rec |-> Record(item_id.n, meta.prompt, base_model.s)]

\* The loop of fetch_and_store over a page's items: the records of the items
\* _process_item accepts, in order.
ProcessItems(items) ==
    LET results == [i \in 1..Len(items) |-> ProcessItem(items[i])]
        accepted == SelectSeq(results, LAMBDA r : r.ok)
    IN  [i \in 1..Len(accepted) |-> accepted[i].rec]

(***************************************************************************)
(* The embedder and the normalisation of what it returns.                  *)
(***************************************************************************)
Num(x) == [t |-> "num", x |-> x]
PyList(xs) == [t |-> "list", items |-> xs]
NdArray(xs) == [t |-> "ndarray", items |-> xs]
Nums(v) == [i \in 1..Len(v) |-> Num(v[i])]

\* The embedding of a prompt: the embedder is deterministic in its text.
VecOf(prompt) == IF prompt = PyStr("a cat") THEN <<1, 2>> ELSE <<3, 4>>

EmbedShapes == {"list_of_array", "list_of_list", "flat_list", "ndarray", "text", "none"}

\* What embedder.get_embedding returns, in each shape a provider may use.
EmbeddingOf(shape, v) ==
    CASE shape = "list_of_array" -> PyList(<<NdArray(Nums(v))>>)
      [] shape = "list_of_list" -> PyList(<<PyList(Nums(v))>>)
      [] shape = "flat_list" -> PyList(Nums(v))
      [] shape = "ndarray" -> NdArray(Nums(v))
      [] shape = "text" -> PyList(<<PyList(<<PyStr("x")>>)>>)
      [] OTHER -> PyNone

\* ndarray.tolist()
ToList(a) == PyList(a.items)

\* Lines 223-242 as a mutant: the two validations (lines 233-242) are left
\* out, and what is no list of numbers goes on as the vector it is not.
NormalizeEmbeddingUnchecked(e) ==
    LET first == IF e.t = "list" /\ Len(e.items) > 0
                 THEN (IF e.items[1].t = "ndarray" THEN ToList(e.items[1])
                       ELSE e.items[1])
                 ELSE IF e.t = "ndarray" THEN ToList(e)
                 ELSE e
    IN  IF first.t = "list" /\ \A i \in 1..Len(first.items) : first.items[i].t = "num"
        THEN [ok |-> TRUE, vec |-> [i \in 1..Len(first.items) |-> first.items[i].x]]
        ELSE [ok |-> TRUE, vec |-> <<>>]

\* Lines 223-242 of _store_in_qdrant: [ok |-> FALSE] is the `continue` that
\* skips the record.
NormalizeEmbedding(e) ==
    LET first == IF e.t = "list" /\ Len(e.items) > 0
                 THEN (IF e.items[1].t = "ndarray" THEN ToList(e.items[1])
                       ELSE e.items[1])
                 ELSE IF e.t = "ndarray" THEN ToList(e)
                 ELSE e
    IN  IF first.t # "list" THEN [ok |-> FALSE, vec |-> <<>>]
        ELSE IF \E i \in 1..Len(first.items) : first.items[i].t # "num"
        THEN [ok |-> FALSE, vec |-> <<>>]
        ELSE [ok |-> TRUE, vec |-> [i \in 1..Len(first.items) |-> first.items[i].x]]

(***************************************************************************)
(* The vector store and the store writer.                                  *)
(***************************************************************************)
Ids == 1..MaxId
NoPoint == [present |-> FALSE]
Point(id, vec, payload) == [present |-> TRUE, id |-> id, vector |-> vec, payload |-> payload]
EmptyStore == [i \in Ids |-> NoPoint]

\* _check_duplicate(item_id): scroll for a point whose payload id matches; an
\* exception of the lookup is swallowed and answers False.
CheckDuplicate(st, item_id, lookupFails) ==
    IF lookupFails THEN FALSE
    ELSE \E i \in Ids : st[i].present /\ st[i].payload.id = item_id

\* Lines 214-255: the points of the records that are no duplicates and whose
\* embedding normalises, in record order.  Every lookup reads the store as it
\* is before the call: nothing is upserted until the loop is over.
BuildPoints(records, i, st, lookupErr, shapes) ==
    LET e(j) == NormalizeEmbedding(EmbeddingOf(shapes[j], VecOf(records[j].prompt)))
        todo == [j \in 1..(Len(records) - i + 1) |-> i + j - 1]
        kept == SelectSeq(todo, LAMBDA j :
                    /\ ~CheckDuplicate(st, records[j].id, j \in lookupErr)
                    /\ e(j).ok)
    IN  [n \in 1..Len(kept) |-> Point(records[kept[n]].id, e(kept[n]).vec, records[kept[n]])]

\* qdrant_client.upsert(points=batch): insert or overwrite by point id, in order.
Upsert(st, batch) ==
    [id \in DOMAIN st |->
        LET at == {j \in 1..Len(batch) : batch[j].id = id}
        IN  IF at = {} THEN st[id]
            ELSE batch[CHOOSE j \in at : \A k \in at : k <= j]]

\* The number of sub-batches as a mutant: the last, partial sub-batch is
\* left out.
NumBatchesFloor(points) == Len(points) \div batch_size

NumBatches(points) ==
    IF points = <<>> THEN 0 ELSE (Len(points) - 1) \div batch_size + 1

\* Lines 268-269: batch = points[i:i + batch_size] for i in
\* range(0, len(points), batch_size).
Batches(points) ==
    [b \in 1..NumBatches(points) |->
        SubSeq(points, (b - 1) * batch_size + 1, Min(Len(points), b * batch_size))]

\* _store_in_qdrant(records).  failAt is the sub-batch whose upsert raises
\* (0: none does); the sub-batches before it stay in the store and the
\* exception is re-raised to the caller.
StoreInQdrant(st, records, lookupErr, shapes, failAt) ==
    LET points == BuildPoints(records, 1, st, lookupErr, shapes)
        nb == NumBatches(points)
        raised == failAt # 0 /\ failAt <= nb
        done == IF raised THEN failAt - 1 ELSE nb
        applied == SubSeq(points, 1, Min(Len(points), done * batch_size))
        tried == IF raised THEN Min(Len(points), failAt * batch_size) ELSE Len(points)
    IN  [store |-> Upsert(st, applied),
         raised |-> raised,
         submitted |-> tried,
         calls |-> SubSeq(Batches(points), 1, IF raised THEN failAt ELSE nb),
         duplicates |-> Cardinality({i \in 1..Len(records) :
                                       CheckDuplicate(st, records[i].id, i \in lookupErr)})]

(***************************************************************************)
(* The source.  A 2xx response body carries `items` and `metadata`; the    *)
(* source is only partially trusted, so the model lets it answer any page  *)
(* and any metadata to any request.                                        *)
(***************************************************************************)
Cursors == {"c1", "c2"}

\* The 'metadata' member: absent, not a dict, or a dict whose nextCursor is
\* absent, null or a cursor.
MetaDict(nc) == [t |-> "dict", nextCursor |-> nc]
MetaVals ==
    {PyMissing, PyNone} \cup
    {MetaDict(nc) : nc \in {PyMissing, PyNone} \cup {PyStr(c) : c \in Cursors}}

\* The items a page is made of: one valid item per id, a second valid item for
\* id 1 (numeric-string id, other prompt and model), and one the validator
\* rejects for its model.
PageItems ==
    {RawItem(PyInt(i), PyStr("Illustrious"), Meta(PyStr("a cat"))) : i \in Ids} \cup
    {RawItem(PyStr("1"), PyStr("Pony"), Meta(PyStr("a dog"))),
     RawItem(PyInt(2), PyStr("SDXL"), Meta(PyStr("a cat")))}

\* A page of three items: one valid, one whose model is not allow-listed, one
\* without a prompt.
ScenarioPage ==
    <<RawItem(PyInt(1), PyStr("Illustrious"), Meta(PyStr("a cat"))),
      RawItem(PyInt(2), PyStr("SDXL"), Meta(PyStr("a dog"))),
      RawItem(PyInt(1), PyStr("Pony"), Meta(PyMissing))>>

\* The pages the source answers: every page of up to MaxPageLen items, and
\* the page of three.
Pages == UNION {[1..n -> PageItems] : n \in 1..MaxPageLen} \cup {ScenarioPage}

\* data.get('metadata', {}).get('nextCursor', default): [ok |-> FALSE] is the
\* AttributeError of .get on a metadata that is not a dict.
NextCursorOf(meta, default) ==
    IF meta = PyMissing THEN [ok |-> TRUE, v |-> default]
    ELSE IF meta.t # "dict" THEN [ok |-> FALSE, v |-> default]
    ELSE [ok |-> TRUE, v |-> GetOr(meta.nextCursor, default)]

(***************************************************************************)
(* The run: __main__ constructs the fetcher and calls fetch_and_store.     *)
(***************************************************************************)
\* `first` tells the first request of a run from the later ones.
NoRequest == [sent |-> FALSE]
Request(first, c, limit) == [sent |-> TRUE, first |-> first, cursor |-> c, limit |-> limit]

(***************************************************************************)
(* The refiner page, src/modules/refiner/refiner.py.  An option string is  *)
(* an emoji, a separator and a word; generate_options and enhance_prompt   *)
(* are calls of a language model and return what the model gave.           *)
(***************************************************************************)
Opt(emoji, sep, word) == [emoji |-> emoji, sep |-> sep, word |-> word]

\* opt.split(' ', 1): only a space splits the string.
Split1(opt) == IF opt.sep = " " THEN <<opt.emoji, opt.word>> ELSE <<opt>>

\* Lines 6-11.
INITIAL_OPTIONS ==
    [d \in {Opt("person", " ", "Human"), Opt("dog", " ", "Animal"),
            Opt("box", " ", "Object/Item"),
            Opt("sunrise", " ", "Scenery/Environment")} |-> d.word]

\* ", ".join(keywords)
Join(keywords) == [joined |-> keywords]

\* st.session_state.clear()
Cleared == <<>>

SessionDefaults ==
    [current_step |-> "initial",
     available_options |-> INITIAL_OPTIONS,
     selected_keywords |-> <<>>,
     generated_options |-> <<>>,
     debug_info |-> {},
     enhanced_prompt |-> Join(<<>>),
     enhancement_explanation |-> "",
     roll_count |-> 0]

\* Lines 13-29: every key that is missing takes its default.
initialize_session_state(ss) ==
    [k \in DOMAIN SessionDefaults |->
        IF k \in DOMAIN ss THEN ss[k] ELSE SessionDefaults[k]]

NoCalls == [n |-> 0]

Init ==
    /\ file = Absent
    /\ store = EmptyStore
    /\ pc = "idle"
    /\ cursor = PyStr("")
    /\ prev_processed = 0
    /\ total_processed = 0
    /\ target_count = 0
    /\ request = NoRequest
    /\ outcome = "none"
    /\ unsaved = 0
    /\ pending = 0
    /\ wb = NoCalls
    /\ cs = NoCalls
    /\ vc = NoCalls
    /\ page = NoCalls
    /\ cfg = NoCalls
    /\ session_state = initialize_session_state(Cleared)
    /\ clicked = NoCalls

Stopped == pc \in {"idle", "done", "failed", "killed"}

Bump(n) == Min(n + 1, MaxUnsaved)

\* The process ends: the persistent state stays, the locals are gone.
Ends(how, why) ==
    /\ pc' = how
    /\ outcome' = why
    /\ cursor' = PyStr("")
    /\ prev_processed' = 0
    /\ total_processed' = 0
    /\ target_count' = 0
    /\ pending' = 0

\* __init__ (lines 67-69) followed by lines 295-301 of fetch_and_store and the
\* first test of the while condition.
StartRun ==
    /\ Stopped
    /\ \E target \in 0..MaxTarget, f1 \in SaveFaults, readFails \in BOOLEAN, f2 \in SaveFaults :
         LET created == ConstructFetcher(file, GoodSecrets, f1).file
             ld == GetSavedState(created, readFails, f2)
         IN  /\ file # Absent => f1 = "none"
             /\ created = Absent => ~readFails
             /\ (readFails \/ created # InvalidJson \/ f1 = "kill") => f2 = "none"
             /\ ld.state[2] <= MaxTotal
             /\ IF file = Absent /\ f1 = "kill"
                THEN /\ file' = created
                     /\ Ends("killed", "killed")
                     /\ UNCHANGED <<request, unsaved>>
                ELSE /\ file' = ld.file
                     /\ IF ld.killed
                        THEN /\ Ends("killed", "killed")
                             /\ UNCHANGED <<request, unsaved>>
                        ELSE /\ request' = NoRequest
                             /\ unsaved' = 0
                             /\ IF 0 < target
                                THEN /\ cursor' = PyStr(ld.state[1])
                                     /\ prev_processed' = ld.state[2]
                                     /\ total_processed' = 0
                                     /\ target_count' = target
                                     /\ pending' = 0
                                     /\ pc' = "running"
                                     /\ outcome' = IF readFails THEN "start_unreadable"
                                                   ELSE "start"
                                ELSE Ends("done", "target_reached")
    /\ UNCHANGED <<store, wb, cs, vc, page, cfg, session_state, clicked>>

\* Lines 303-323 as a mutant: the limit is computed from the target alone,
\* not from what is left of it.
SendRequestWholeTarget ==
    /\ pc = "running"
    /\ request' = Request(~request.sent, cursor, Min(BATCH_SIZE, target_count))

\* Lines 303-323: the loop is entered and the page request is sent.
SendRequest ==
    /\ pc = "running"
    /\ request' = Request(~request.sent, cursor,
                          Min(BATCH_SIZE, target_count - total_processed))

\* The failed request as a mutant: the error is logged and the loop is left
\* as on a storage error, so the run ends normally.
FetchErrorSwallowed ==
    /\ SendRequest
    /\ Ends("done", "fetch_error")
    /\ UNCHANGED <<file, store, unsaved, wb, cs, vc, page, cfg,
                 session_state, clicked>>

\* requests.get raises, or raise_for_status does on a non-2xx answer: nothing
\* catches it, it leaves fetch_and_store and the process.
FetchError ==
    /\ SendRequest
    /\ Ends("failed", "fetch_error")
    /\ UNCHANGED <<file, store, unsaved, wb, cs, vc, page, cfg,
                 session_state, clicked>>

\* response.json() raises on a 2xx body that is not JSON.
BodyNotJson ==
    /\ SendRequest
    /\ Ends("failed", "json_error")
    /\ UNCHANGED <<file, store, unsaved, wb, cs, vc, page, cfg,
                 session_state, clicked>>

\* Lines 327-329: the body is not a dict or has no 'items'.
MalformedBody ==
    /\ SendRequest
    /\ Ends("done", "malformed")
    /\ UNCHANGED <<file, store, unsaved, wb, cs, vc, page, cfg,
                 session_state, clicked>>

\* Lines 331-334: 'items' is empty.
NoItems ==
    /\ SendRequest
    /\ Ends("done", "no_items")
    /\ UNCHANGED <<file, store, unsaved, wb, cs, vc, page, cfg,
                 session_state, clicked>>

\* Lines 358-365 and the next test of the while condition, with `total` the
\* value of total_processed the iteration has reached.
Advance(meta, total, continues) ==
    LET nc == NextCursorOf(meta, PyNone)
    IN  IF ~nc.ok THEN Ends("failed", "crash")
        ELSE IF ~Truthy(nc.v) THEN Ends("done", "no_cursor")
        ELSE IF ~(total < target_count) THEN Ends("done", "target_reached")
        ELSE /\ cursor' = nc.v
             /\ total_processed' = total
             /\ pending' = 0
             /\ pc' = "running"
             /\ outcome' = continues
             /\ UNCHANGED <<prev_processed, target_count>>

\* Lines 336-347 with no valid record in the page: line 347 skips the store
\* and the save.
PageRejected ==
    /\ SendRequest
    /\ \E items \in Pages, meta \in MetaVals :
         /\ ProcessItems(items) = <<>>
         /\ Advance(meta, total_processed, "rejected_continue")
    /\ unsaved' = Bump(unsaved)
    /\ UNCHANGED <<file, store, wb, cs, vc, page, cfg, session_state, clicked>>

\* What the environment decides for each record of one _store_in_qdrant call:
\* whether its duplicate lookup fails and the shape its embedding comes in.
\* A choice that cannot show is pinned: a lookup can fail only where it would
\* have found the id, and a shape is drawn only for a record that is embedded.
RunShapes == {"list_of_array", "flat_list"}
StoreInputs(st, records) ==
    {in \in [1..Len(records) -> [lookupFails : BOOLEAN, shape : RunShapes]] :
        \A i \in 1..Len(records) :
            LET found == CheckDuplicate(st, records[i].id, FALSE)
            IN  /\ in[i].lookupFails => found
                /\ (found /\ ~in[i].lookupFails) => in[i].shape = "list_of_array"}
LookupErr(in) == {i \in DOMAIN in : in[i].lookupFails}
Shapes(in) == [i \in DOMAIN in |-> in[i].shape]

\* Lines 336-350: the page has valid records and _store_in_qdrant is called.
\* If it raises, the except of line 354 logs and breaks.
PageToStore ==
    /\ SendRequest
    /\ \E items \in Pages, fails \in BOOLEAN :
         LET records == ProcessItems(items)
         IN  /\ records # <<>>
             /\ \E in \in StoreInputs(store, records) :
                  LET r == StoreInQdrant(store, records, LookupErr(in), Shapes(in),
                                         IF fails THEN 1 ELSE 0)
                  IN  /\ r.raised = fails
                      /\ store' = r.store
                      /\ IF r.raised
                         THEN /\ Ends("done", "store_error")
                              /\ page' = NoCalls
                         ELSE /\ pc' = "stored"
                              /\ pending' = Len(records)
                              /\ outcome' = "stored"
                              /\ page' = [n |-> 1,
                                          scenario |-> items = ScenarioPage,
                                          fresh |-> outcome = "start",
                                          emptyStore |-> store = EmptyStore,
                                          duplicates |-> r.duplicates,
                                          ids |-> {records[i].id : i \in 1..Len(records)}]
                              /\ UNCHANGED <<cursor, prev_processed, total_processed,
                                             target_count>>
    /\ unsaved' = Bump(unsaved)
    /\ UNCHANGED <<file, wb, cs, vc, cfg, session_state, clicked>>

\* Line 351 as a mutant: the count of the run does not grow.
CountStuck(total, n) == total

\* Line 351: total_processed += len(processed_records)
Count(total, n) == total + n

\* Lines 351-365 after _store_in_qdrant returned: the count grows by the
\* number of valid records, the cursor is saved, the loop goes on.  The
\* metadata of the page is read here for the first time.
SaveAndAdvance ==
    /\ pc = "stored"
    /\ \E meta \in MetaVals, fault \in SaveFaults :
         LET total == Count(total_processed, pending)
             nc == NextCursorOf(meta, PyStr(""))
         IN  /\ ~nc.ok => fault = "none"
             /\ IF ~nc.ok
                THEN \* line 353 raises inside the try: logged as a storage error
                     /\ Ends("done", "metadata_error")
                     /\ UNCHANGED <<file, unsaved>>
                ELSE /\ file' = SaveCursor(file, nc.v, prev_processed + total, fault)
                     /\ unsaved' = IF fault = "none" THEN 0 ELSE unsaved
                     /\ IF fault = "kill"
                        THEN Ends("killed", "killed")
                        ELSE Advance(meta, total, "saved_continue")
    /\ page' = NoCalls
    /\ UNCHANGED <<store, request, wb, cs, vc, cfg, session_state, clicked>>

\* The process is killed between two steps: while it waits for a page, or
\* after _store_in_qdrant returned and before _save_cursor opened the file.
Kill ==
    /\ pc \in {"running", "stored"}
    /\ Ends("killed", "killed")
    /\ page' = NoCalls
    /\ UNCHANGED <<file, store, request, unsaved, wb, cs, vc, cfg,
                 session_state, clicked>>

Next ==
    \/ StartRun
    \/ FetchError
    \/ BodyNotJson
    \/ MalformedBody
    \/ NoItems
    \/ PageRejected
    \/ PageToStore
    \/ SaveAndAdvance
    \/ Kill

Spec == Init /\ [][Next]_vars

\* The process keeps executing while it runs: every step of the loop is the
\* program's own, and the page request returns.
LoopStep ==
    \/ FetchError
    \/ BodyNotJson
    \/ MalformedBody
    \/ NoItems
    \/ PageRejected
    \/ PageToStore
    \/ SaveAndAdvance

FairSpec == Init /\ [][Next]_vars /\ WF_vars(LoopStep)

(***************************************************************************)
(* The cursor store on its own: _save_cursor and _get_saved_state called   *)
(* directly, on every content the state file can have.                     *)
(***************************************************************************)
CursorStrings == {""} \cup Cursors \cup {"None", "2"}

CursorTokens == {JAbsent, JNull, JNumber(1)} \cup {JString(c) : c \in CursorStrings}
TotalTokens ==
    {JAbsent, JNull, JString("2"), JString("x")} \cup {JNumber(n) : n \in 0..MaxInt}

StateFiles ==
    {Absent, InvalidJson, JsonNonObject} \cup
    {JsonObject(c, n) : c \in CursorTokens, n \in TotalTokens}

InitCursorStore ==
    /\ file \in StateFiles
    /\ store = EmptyStore
    /\ pc = "idle"
    /\ cursor = PyStr("")
    /\ prev_processed = 0
    /\ total_processed = 0
    /\ target_count = 0
    /\ request = NoRequest
    /\ outcome = "none"
    /\ unsaved = 0
    /\ pending = 0
    /\ wb = NoCalls
    /\ cs = NoCalls
    /\ vc = NoCalls
    /\ page = NoCalls
    /\ cfg = NoCalls
    /\ session_state = initialize_session_state(Cleared)
    /\ clicked = NoCalls

runVars == <<pc, cursor, prev_processed, total_processed, target_count,
             request, outcome, unsaved, pending>>

\* A call of _save_cursor(c, n).
CallSave ==
    /\ \E c \in CursorStrings, n \in 0..MaxInt, fault \in SaveFaults :
         /\ file' = SaveCursor(file, PyStr(c), n, fault)
         /\ cs' = [n |-> 1, op |-> "save", before |-> file, cursor |-> c, total |-> n,
                   fault |-> fault]
    /\ UNCHANGED <<store, runVars, wb, vc, page, cfg, session_state, clicked>>

\* A call of _get_saved_state().
CallLoad ==
    /\ \E readFails \in BOOLEAN, fault \in SaveFaults :
         LET r == GetSavedState(file, readFails, fault)
         IN  /\ file = Absent => ~readFails
             /\ (readFails \/ file # InvalidJson) => fault = "none"
             /\ file' = r.file
             /\ cs' = [n |-> 1, op |-> "load", before |-> file, readFails |-> readFails,
                       fault |-> fault, result |-> r.state,
                       afterSave |-> cs.n > 0 /\ cs.op = "save" /\ cs.fault = "none",
                       saved |-> IF cs.n > 0 /\ cs.op = "save"
                                 THEN <<cs.cursor, cs.total>> ELSE EmptyState]
    /\ UNCHANGED <<store, runVars, wb, vc, page, cfg, session_state, clicked>>

NextCursorStore == CallSave \/ CallLoad

CursorSpec == InitCursorStore /\ [][NextCursorStore]_vars

(***************************************************************************)
(* The store writer on its own: _store_in_qdrant called directly           *)
(* (write_batch), on every list of canonical records.                      *)
(***************************************************************************)
ValidRecords == {ProcessItem(item).rec : item \in {it \in PageItems : ProcessItem(it).ok}}
RecordLists == UNION {[1..n -> ValidRecords] : n \in 1..MaxPageLen}

RecordSet(records) == {records[i] : i \in 1..Len(records)}

\* A call of _store_in_qdrant(records).  `embedded` tells that no record of
\* the call was skipped for its embedding.
CallStore ==
    /\ \E records \in RecordLists, fails \in BOOLEAN :
         \E in \in StoreInputs(store, records) :
           LET r == StoreInQdrant(store, records, LookupErr(in), Shapes(in),
                                  IF fails THEN 1 ELSE 0)
           IN  /\ r.raised = fails
               /\ store' = r.store
               /\ wb' = [n |-> Min(wb.n + 1, 2),
                         records |-> RecordSet(records),
                         submitted |-> r.submitted,
                         returned |-> ~r.raised,
                         embedded |-> \A i \in 1..Len(records) :
                                         in[i].shape = "list_of_array",
                         sameAsLast |-> /\ wb.n > 0
                                        /\ wb.records = RecordSet(records)
                                        /\ wb.returned
                                        /\ wb.embedded]
    /\ UNCHANGED <<file, runVars, cs, vc, page, cfg, session_state, clicked>>

WriterSpec == Init /\ [][CallStore]_vars

(***************************************************************************)
(* The sizing of the page requests on its own: the loop of fetch_and_store *)
(* with a page reduced to the number of valid records it holds, for        *)
(* targets below, at and above BATCH_SIZE.                                 *)
(***************************************************************************)
SizingTargets ==
    {0 - 1, 0, 1, BATCH_SIZE - 1, BATCH_SIZE, BATCH_SIZE + 1, MaxRequested}

\* len(processed_records) of a page: the source may answer fewer items than
\* the limit asks for, or more.
PageCounts == {0, 1, BATCH_SIZE - 1, BATCH_SIZE + 1}

\* fetch_and_store(target) up to the first test of the while condition.
SizingStart ==
    /\ Stopped
    /\ \E target \in SizingTargets :
         IF 0 < target
         THEN /\ cursor' = PyStr("")
              /\ prev_processed' = 0
              /\ total_processed' = 0
              /\ target_count' = target
              /\ pending' = 0
              /\ pc' = "running"
              /\ outcome' = "start"
         ELSE Ends("done", "target_reached")
    /\ request' = NoRequest
    /\ UNCHANGED <<file, store, unsaved, wb, cs, vc, page, cfg,
                 session_state, clicked>>

\* One iteration: the request is sent with its limit, the page's valid
\* records are counted, the while condition is tested again.
SizingPage ==
    /\ SendRequest
    /\ \E n \in PageCounts :
         LET total == Count(total_processed, n)
         IN  IF total < target_count
             THEN /\ total_processed' = total
                  /\ outcome' = "saved_continue"
                  /\ UNCHANGED <<pc, cursor, prev_processed, target_count, pending>>
             ELSE Ends("done", "target_reached")
    /\ UNCHANGED <<file, store, unsaved, wb, cs, vc, page, cfg,
                 session_state, clicked>>

NextSizing == SizingStart \/ SizingPage

SizingSpec == Init /\ [][NextSizing]_vars

(***************************************************************************)
(* The validator on its own: _process_item called directly on every raw    *)
(* item the source can send.                                               *)
(***************************************************************************)
\* item.get('id'): absent, null, an integer, a string, a list.
IdVals ==
    {PyMissing, PyNone, PyOther} \cup
    {PyInt(n) : n \in (0 - 1)..2} \cup
    {PyStr(x) : x \in {"", "0", "1", "-1", "abc"}}

\* item.get('baseModel')
ModelVals ==
    {PyMissing, PyNone, PyOther, PyInt(1)} \cup
    {PyStr(m) : m \in ALLOWED_MODELS \cup {"", "SDXL", "pony"}}

\* meta.get('prompt')
PromptVals ==
    {PyMissing, PyNone, PyOther, PyInt(0), PyInt(5)} \cup
    {PyStr(x) : x \in {"", "a cat", " "}}

\* item.get('meta'): absent, null, not a dict, or a dict.
ItemMetas == {PyMissing, PyNone, PyOther, PyStr("a cat")} \cup {Meta(q) : q \in PromptVals}

RawItems ==
    {PyOther} \cup
    {RawItem(id, m, meta) : id \in IdVals, m \in ModelVals, meta \in ItemMetas}

\* A call of _process_item(item).
CallProcessItem ==
    /\ \E item \in RawItems :
         LET r == ProcessItem(item)
         IN  vc' = [n |-> 1, item |-> item, ok |-> r.ok, rec |-> r.rec]
    /\ UNCHANGED <<file, store, runVars, wb, cs, page, cfg,
                 session_state, clicked>>

ValidatorSpec == Init /\ [][CallProcessItem]_vars

(***************************************************************************)
(* The embedding normalisation on its own: _store_in_qdrant called         *)
(* directly with the embedder answering in every shape, no lookup and no   *)
(* upsert failing.                                                         *)
(***************************************************************************)
CallStoreShapes ==
    /\ \E records \in RecordLists :
         \E shapes \in [1..Len(records) -> EmbedShapes] :
           LET r == StoreInQdrant(store, records, {}, shapes, 0)
           IN  /\ store' = r.store
               /\ wb' = [n |-> 1,
                         records |-> records,
                         shapes |-> shapes,
                         before |-> store,
                         submitted |-> r.submitted,
                         returned |-> ~r.raised]
    /\ UNCHANGED <<file, runVars, cs, vc, page, cfg, session_state, clicked>>

EmbedSpec == Init /\ [][CallStoreShapes]_vars

(***************************************************************************)
(* The constructor on its own: CivitaiDataFetcher(...) called with every   *)
(* combination of the required settings, on a state file that is absent,   *)
(* damaged or in use.                                                      *)
(***************************************************************************)
SecretVals == {PyMissing, PyNone, PyStr(""), PyStr("set")}

InitConfig ==
    /\ file \in {Absent, InvalidJson, JsonObject(JString("c1"), JNumber(1))}
    /\ store = EmptyStore
    /\ pc = "idle"
    /\ cursor = PyStr("")
    /\ prev_processed = 0
    /\ total_processed = 0
    /\ target_count = 0
    /\ request = NoRequest
    /\ outcome = "none"
    /\ unsaved = 0
    /\ pending = 0
    /\ wb = NoCalls
    /\ cs = NoCalls
    /\ vc = NoCalls
    /\ page = NoCalls
    /\ cfg = NoCalls
    /\ session_state = initialize_session_state(Cleared)
    /\ clicked = NoCalls

\* __main__ line 396: the fetcher is constructed; an exception ends the
\* process before fetch_and_store is called.
CallConstruct ==
    /\ \E secrets \in [REQUIRED_SECRETS -> SecretVals], fault \in SaveFaults :
         LET made == ConstructFetcher(file, secrets, fault)
         IN  /\ file # Absent => fault = "none"
             /\ file' = made.file
             /\ cfg' = [n |-> 1, secrets |-> secrets, before |-> file,
                        raised |-> made.raised]
             /\ IF made.raised
                THEN Ends("failed", "config_error")
                ELSE /\ pc' = "idle"
                     /\ outcome' = "constructed"
                     /\ UNCHANGED <<cursor, prev_processed, total_processed,
                                    target_count, pending>>
    /\ UNCHANGED <<store, request, unsaved, wb, cs, vc, page,
                 session_state, clicked>>

ConfigSpec == InitConfig /\ [][CallConstruct]_vars

(***************************************************************************)
(* The sub-batching of the upserts: a first run whose pages hold up to     *)
(* MaxBatches sub-batches of valid items, any one of whose upserts may     *)
(* fail.                                                                   *)
(***************************************************************************)
\* A page of n valid items.  The ids go round Ids and the prompt changes from
\* one sub-batch to the next, so the store shows which sub-batch it took last.
GenPage(n) ==
    [i \in 1..n |->
        RawItem(PyInt(((i - 1) % MaxId) + 1), PyStr("Illustrious"),
                Meta(PyStr(IF ((i - 1) \div batch_size) % 2 = 0 THEN "a cat"
                           ELSE "a dog")))]

BatchLens == {batch_size} \cup {b * batch_size + 1 : b \in 0..(MaxBatches - 1)}

\* Lines 336-356 on such a page.  failAt is the sub-batch whose upsert raises
\* (0: none); the duplicate lookups all answer, or all fail.  wb keeps the
\* call that raised.
PageOfMany ==
    /\ SendRequest
    /\ \E n \in BatchLens, lookupsFail \in BOOLEAN :
         \E failAt \in 0..((n - 1) \div batch_size + 1) :
         LET records == ProcessItems(GenPage(n))
             r == StoreInQdrant(store, records, IF lookupsFail THEN 1..n ELSE {},
                                [i \in 1..n |-> "list_of_array"], failAt)
         IN  /\ lookupsFail => store # EmptyStore
             /\ r.raised = (failAt # 0)
             /\ store' = r.store
             /\ IF r.raised
                THEN /\ Ends("done", "store_error")
                     /\ page' = NoCalls
                     /\ wb' = [n |-> 1, len |-> n, failAt |-> failAt,
                               submitted |-> r.submitted]
                ELSE /\ pc' = "stored"
                     /\ wb' = NoCalls
                     /\ pending' = Len(records)
                     /\ outcome' = "stored"
                     /\ page' = [n |-> 1,
                                 scenario |-> FALSE,
                                 fresh |-> outcome = "start",
                                 emptyStore |-> store = EmptyStore,
                                 duplicates |-> r.duplicates,
                                 ids |-> {records[i].id : i \in 1..Len(records)}]
                     /\ UNCHANGED <<cursor, prev_processed, total_processed,
                                    target_count>>
    /\ unsaved' = Bump(unsaved)
    /\ UNCHANGED <<file, cs, vc, cfg, session_state, clicked>>

\* The first run of the process on a fresh installation.
FirstRun == pc = "idle" /\ StartRun

NextBatch ==
    \/ FirstRun
    \/ PageRejected
    \/ PageOfMany
    \/ SaveAndAdvance

BatchSpec == Init /\ [][NextBatch]_vars

(***************************************************************************)
(* The sub-batches of one call: _store_in_qdrant called directly with      *)
(* lists of up to MaxBatches sub-batches of records, on the store as the   *)
(* calls before left it.                                                   *)
(***************************************************************************)
SubBatchLens ==
    {0, 1, 2} \cup {b * batch_size - 1 : b \in 1..MaxBatches}
              \cup {b * batch_size : b \in 1..MaxBatches}
              \cup {b * batch_size + 1 : b \in 1..MaxBatches}

\* A call of _store_in_qdrant(records) with n records.  wb keeps the call
\* and the upsert calls it made, the one that raised included.
CallStoreMany ==
    /\ \E n \in SubBatchLens, lookupsFail \in BOOLEAN :
         \E failAt \in 0..((n + batch_size - 1) \div batch_size) :
           LET records == ProcessItems(GenPage(n))
               r == StoreInQdrant(store, records, IF lookupsFail THEN 1..n ELSE {},
                                  [i \in 1..n |-> "list_of_array"], failAt)
           IN  /\ lookupsFail => store # EmptyStore
               /\ r.raised = (failAt # 0)
               /\ store' = r.store
               /\ wb' = [n |-> 1, records |-> records, lookupsFail |-> lookupsFail,
                         before |-> store, calls |-> r.calls, returned |-> ~r.raised]
    /\ UNCHANGED <<file, runVars, cs, vc, page, cfg, session_state, clicked>>

SubBatchSpec == Init /\ [][CallStoreMany]_vars

(***************************************************************************)
(* The first run on its own: the process started once on a fresh           *)
(* installation (no state file, an empty store), with every answer of the  *)
(* source and every fault of the full model.                               *)
(***************************************************************************)
NextFirstRun ==
    \/ FirstRun
    \/ FetchError
    \/ BodyNotJson
    \/ MalformedBody
    \/ NoItems
    \/ PageRejected
    \/ PageToStore
    \/ SaveAndAdvance
    \/ Kill

FirstRunSpec == Init /\ [][NextFirstRun]_vars

(***************************************************************************)
(* The refiner page as a state machine: every step is one click, the       *)
(* handler it runs, and the rerun of the page that follows (run, lines     *)
(* 73-132).  A button can be clicked only where run draws it.              *)
(***************************************************************************)
MaxKeywords == 3
MaxRolls == 2

fetcherVars == <<file, store, runVars, wb, cs, vc, page, cfg>>

Dog == Opt("dog", " ", "Dog")
Cat == Opt("cat", " ", "Cat")
Bird == Opt("bird", " ", "Bird")
\* An option whose emoji and word are separated by a tab: clean_emoji_text
\* (option_agent.py lines 21, 36) accepts any whitespace and returns it as is.
TabCat == Opt("cat", "\t", "Cat")

\* What generate_options returns (option_agent.py lines 96-163): no options
\* and an error, or the cleaned options of the response.
OptionResults ==
    {[options |-> <<>>, debug_info |-> {"error"}],
     [options |-> <<Dog, Cat>>, debug_info |-> {"cleaned_options"}],
     [options |-> <<Cat, Bird>>, debug_info |-> {"cleaned_options"}],
     [options |-> <<Dog, TabCat>>, debug_info |-> {"cleaned_options"}]}

\* What enhance_prompt returns (enhance_agent.py lines 59-104): the model's
\* prompt and explanation, or the joined keywords.
EnhanceResults(keywords) ==
    {[prompt |-> Join(<<"masterpiece">>), explanation |-> "added quality tags"],
     [prompt |-> Join(keywords), explanation |-> ""]}

\* Lines 60-62 and 44-46: {opt: opt.split(' ', 1)[1] for opt in new_options};
\* an option without a space raises IndexError.
SplitRaises(options) == \E i \in DOMAIN options : Len(Split1(options[i])) < 2

OptionDict(options) ==
    [o \in {options[i] : i \in DOMAIN options} |-> Split1(o)[2]]

Handler(name, raised) == [n |-> 1, handler |-> name, raised |-> raised]

\* Lines 52-71.
select_option(option, display_name) ==
    LET ss == session_state
        first == [ss EXCEPT !.available_options =
                                IF ss.current_step = "initial" THEN <<>> ELSE @,
                            !.selected_keywords = Append(@, option)]
    IN  \E r \in OptionResults :
          IF r.options # <<>> /\ SplitRaises(r.options)
          THEN /\ session_state' = first
               /\ clicked' = Handler("select_option", TRUE)
          ELSE /\ session_state' =
                    [(IF r.options # <<>>
                      THEN [first EXCEPT !.generated_options = OptionDict(r.options),
                                         !.debug_info = r.debug_info]
                      ELSE first)
                       EXCEPT !.current_step = "refining", !.roll_count = 0]
               /\ clicked' = Handler("select_option", FALSE)

\* Lines 40-50.
reroll_options ==
    LET ss == session_state
    IN  \E r \in OptionResults :
          /\ session_state' =
               IF ss.selected_keywords # <<>> /\ r.options # <<>>
                    /\ ~SplitRaises(r.options)
               THEN [ss EXCEPT !.generated_options = OptionDict(r.options),
                               !.debug_info = r.debug_info,
                               !.roll_count = @ + 1]
               ELSE ss
          /\ clicked' = Handler("reroll_options",
                                ss.selected_keywords # <<>> /\ r.options # <<>>
                                  /\ SplitRaises(r.options))

\* Lines 31-38.
enhance_current_prompt ==
    LET ss == session_state
    IN  \E r \in EnhanceResults(ss.selected_keywords) :
          /\ session_state' =
               IF ss.selected_keywords # <<>>
               THEN [ss EXCEPT !.enhanced_prompt = r.prompt,
                               !.enhancement_explanation = r.explanation,
                               !.debug_info = @ \cup {"enhancement"}]
               ELSE ss
          /\ clicked' = Handler("enhance_current_prompt", FALSE)

\* Lines 98-104: a category button.
ClickInitial ==
    /\ session_state.current_step = "initial"
    /\ Len(session_state.selected_keywords) < MaxKeywords
    /\ \E d \in DOMAIN INITIAL_OPTIONS : select_option(INITIAL_OPTIONS[d], d)
    /\ UNCHANGED fetcherVars

\* Lines 106-120: a generated option's button.
ClickGenerated ==
    /\ session_state.current_step = "refining"
    /\ session_state.generated_options # <<>>
    /\ Len(session_state.selected_keywords) < MaxKeywords
    /\ \E d \in DOMAIN session_state.generated_options :
         select_option(session_state.generated_options[d], d)
    /\ UNCHANGED fetcherVars

\* Lines 106-113: the Reroll button.
ClickReroll ==
    /\ session_state.current_step = "refining"
    /\ session_state.generated_options # <<>>
    /\ session_state.roll_count < MaxRolls
    /\ reroll_options
    /\ UNCHANGED fetcherVars

\* Lines 77-87: the Enhance button.
ClickEnhance ==
    /\ session_state.selected_keywords # <<>>
    /\ enhance_current_prompt
    /\ UNCHANGED fetcherVars

\* Lines 122-132: the Start Over button clears the session and reruns the
\* page, which initialises it again.
ClickStartOver ==
    /\ session_state.selected_keywords # <<>>
    /\ session_state' = initialize_session_state(Cleared)
    /\ clicked' = Handler("start_over", FALSE)
    /\ UNCHANGED fetcherVars

NextRefiner ==
    \/ ClickInitial
    \/ ClickGenerated
    \/ ClickReroll
    \/ ClickEnhance
    \/ ClickStartOver

RefinerSpec == Init /\ [][NextRefiner]_vars

(***************************************************************************)
(* The claims.                                                             *)
(***************************************************************************)

\* C1: over any sequence of _store_in_qdrant calls in any number of runs, a
\* point whose id is already in the store keeps the vector and the payload
\* it was first written with, whatever the duplicate lookup answers.
C1_NeverOverwritten ==
    [][\A i \in Ids : store[i].present => store'[i] = store[i]]_vars

\* C2: _store_in_qdrant called twice in a row with the same set of records
\* (both calls returning, every embedding normalising): the second call
\* submits no point to upsert and every id of the set has its point.
C2_Idempotent ==
    (wb.n > 0 /\ wb.sameAsLast /\ wb.returned /\ wb.embedded)
        => /\ wb.submitted = 0
           /\ \A r \in wb.records : store[r.id].present

\* C3: the cursor is written after every page fetched and processed, so
\* when the process is killed at most one page fetched by the killed run
\* lies after the persisted cursor, to be fetched again by the next run.
C3_AtMostOnePageRefetched == pc = "killed" => unsaved <= 1

FirstRequestSent == ~request.sent /\ request'.sent /\ request'.first
HoldsCursor(f) == f.k = "object" /\ f.cursor.j = "string" /\ f.cursor.s # ""

\* C4: the first page request of a run carries the non-empty cursor the state
\* file holds at the start of the run; it carries the empty cursor only when
\* the persisted cursor is empty or the file is absent, unreadable or corrupt.
C4_ResumeSafety ==
    [][FirstRequestSent =>
         /\ (outcome = "start" /\ HoldsCursor(file))
                => request'.cursor = PyStr(file.cursor.s)
         /\ request'.cursor = PyStr("")
                => \/ outcome = "start_unreadable"
                   \/ file.k \in {"absent", "invalid", "nonobject"}
                   \/ file.cursor \in {JString(""), JAbsent}]_vars

C4_Witness ==
    /\ pc = "stored"
    /\ request.sent /\ request.first /\ request.cursor = PyStr("c2")
    /\ HoldsCursor(file) /\ file.cursor.s = "c2"

\* C5: _save_cursor(c, n) whose write completes, followed by
\* _get_saved_state() that reads the file, returns exactly (c, n), for every
\* cursor string c and every integer n.
C5_RoundTrip ==
    (cs.n > 0 /\ cs.op = "load" /\ cs.afterSave /\ ~cs.readFails)
        => cs.result = cs.saved

C5_Witness ==
    /\ cs.n > 0 /\ cs.op = "load" /\ cs.afterSave /\ ~cs.readFails
    /\ cs.saved = <<"None", 2>>
    /\ cs.result = cs.saved
    /\ cs.before = file

\* The contents C6 names: absent, unreadable, not valid JSON, valid JSON that
\* is not an object, an object whose total_processed is not an integer.
CorruptFile(f, unreadable) ==
    \/ unreadable
    \/ f.k \in {"absent", "invalid", "nonobject"}
    \/ f.k = "object" /\ f.total_processed.j \in {"string", "null"}

\* C6: on every such content _get_saved_state returns ('', 0) and leaves the
\* empty state {cursor: '', total_processed: 0} persisted (a file that was
\* absent may stay absent, one that cannot be opened stays as it is).
C6_CorruptResets ==
    (cs.n > 0 /\ cs.op = "load" /\ cs.fault = "none"
              /\ CorruptFile(cs.before, cs.readFails))
        => /\ cs.result = EmptyState
           /\ \/ file = JsonObject(JString(""), JNumber(0))
              \/ file = Absent /\ cs.before = Absent
              \/ file = cs.before /\ cs.readFails

\* C7: whatever happens inside _save_cursor(c, n), the file afterwards holds
\* the state it held before or the new state in full.
C7_SaveAtomic ==
    (cs.n > 0 /\ cs.op = "save")
        => file \in {cs.before, JsonObject(JString(cs.cursor), JNumber(cs.total))}

\* C8 as claimed: every run eventually stops, whatever the source answers.
C8_EveryRunStops == (~Stopped) ~> Stopped

\* C8 as amended: every run eventually stops unless the source keeps
\* answering non-empty pages that carry a further cursor and hold only items
\* the validator rejects.
C8_StopsUnlessRejectedForever ==
    (<>[](outcome # "rejected_continue")) => ((~Stopped) ~> Stopped)

C8_Witness ==
    /\ pc = "done" /\ outcome = "target_reached"
    /\ request.sent /\ ~request.first
    /\ unsaved = 0

\* C9: an upsert that raises ends the run failed (the error leaves
\* fetch_and_store); the run ends normally only when the target was reached
\* or the stream was exhausted.
C9_StorageErrorFails ==
    /\ outcome = "store_error" => pc = "failed"
    /\ pc = "done" => outcome \in {"target_reached", "no_cursor", "no_items", "malformed"}

\* C10: a failed page request ends the run failed, with the store and the
\* state file as they were; nothing more is requested by that run, and the
\* run that follows starts from the cursor the state file holds.
C10_FetchErrorFatal ==
    [][/\ (pc = "running" /\ outcome' = "fetch_error")
            => (pc' = "failed" /\ request'.sent /\ file' = file /\ store' = store)
       /\ (pc = "failed" /\ outcome = "fetch_error")
            => /\ request' = request \/ ~request'.sent
               /\ store' = store
               /\ (pc' = "running" /\ outcome' = "start" /\ HoldsCursor(file))
                      => cursor' = PyStr(file.cursor.s)]_vars

C10_Witness ==
    /\ pc = "failed" /\ outcome = "fetch_error"
    /\ request.sent /\ ~request.first
    /\ HoldsCursor(file) /\ request.cursor = PyStr(file.cursor.s)

\* C11: a 2xx response that lacks an expected field or has it in the wrong
\* shape (body not an object, no 'items', 'metadata' absent or not an object,
\* 'nextCursor' absent) ends the run as an end of stream: fetch_and_store
\* returns normally, nothing is raised.
C11_MalformedEndsRun ==
    outcome \in {"malformed", "no_cursor", "metadata_error", "crash"} => pc = "done"

\* C12: for every target count and at every iteration of fetch_and_store the
\* 'limit' sent to the source is at least 1 and at most BATCH_SIZE (200).
C12_PageSizeCap ==
    request.sent => (1 <= request.limit /\ request.limit <= BATCH_SIZE)

C12_Witness ==
    /\ request.sent /\ ~request.first
    /\ request.limit = BATCH_SIZE
    /\ target_count = MaxRequested
    /\ target_count - total_processed > BATCH_SIZE

\* The item of the last _process_item call has no prompt: no meta mapping at
\* all, a meta without 'prompt', or an empty (or null) prompt.
PromptMissing(item) ==
    /\ item.t = "dict"
    /\ \/ item.meta.t # "dict"
       \/ item.meta.prompt \in {PyMissing, PyNone, PyStr("")}

\* C13: for every raw item whose prompt is missing or empty, _process_item
\* returns None and never a record, whatever the other fields are.
C13_NoPromptRejected ==
    (vc.n > 0 /\ PromptMissing(vc.item)) => ~vc.ok

C13_Witness ==
    /\ vc.n > 0
    /\ vc.item = RawItem(PyInt(1), PyStr("Illustrious"), Meta(PyStr("")))
    /\ ~vc.ok

\* C14: for every raw item whose baseModel is missing or is not one of
\* "Illustrious", "Flux.1 D", "Pony", _process_item rejects; every record it
\* returns has its model_name in the allow-list.
C14_AllowListed ==
    /\ (vc.n > 0 /\ vc.item.t = "dict"
           /\ ~(vc.item.baseModel.t = "str" /\ vc.item.baseModel.s \in ALLOWED_MODELS))
          => ~vc.ok
    /\ (vc.n > 0 /\ vc.ok) => vc.rec.model_name \in {"Illustrious", "Flux.1 D", "Pony"}

C14_Witness ==
    /\ vc.n > 0
    /\ vc.item = RawItem(PyInt(1), PyStr("SDXL"), Meta(PyStr("a cat")))
    /\ ~vc.ok

\* An id the claim accepts: an integer, or a string that spells one.
IntegerId(v) ==
    \/ v.t = "int"
    \/ v.t = "str" /\ v.s \in DigitStrings \cup NegDigitStrings

\* C15: an item that is otherwise valid is accepted, with that integer as the
\* record's id, for every id that is an integer (0 and negative integers
\* included) or a numeric string, and is rejected for every other id.
C15_IdCoercion ==
    (vc.n > 0 /\ vc.item.t = "dict"
       /\ vc.item.baseModel = PyStr("Illustrious")
       /\ vc.item.meta = Meta(PyStr("a cat")))
      => /\ vc.ok <=> IntegerId(vc.item.id)
         /\ vc.ok => vc.rec.id = PyIntOf(vc.item.id).n

\* C16: with an empty store and a first page of three items (one with model
\* "Illustrious" and prompt "a cat", one with model "SDXL", one with no
\* prompt), the run's call of _store_in_qdrant has exactly 1 record, that
\* record is stored and none is skipped as a duplicate; the save that follows
\* leaves the state file with the page's nextCursor and with total_processed
\* one more than the file held before the run.
C16_Scenario ==
    [][/\ (pc = "running" /\ pc' = "stored" /\ page'.scenario /\ page'.fresh
              /\ page'.emptyStore)
            => /\ pending' = 1
               /\ page'.duplicates = 0
               /\ store'[1] = Point(1, VecOf(PyStr("a cat")),
                                    Record(1, PyStr("a cat"), "Illustrious"))
               /\ \A i \in Ids \ {1} : ~store'[i].present
       /\ (pc = "stored" /\ page.scenario /\ page.fresh /\ page.emptyStore
              /\ file.k = "object" /\ file.total_processed.j = "number"
              /\ unsaved' = 0 /\ outcome' \in {"saved_continue", "target_reached"})
            => /\ HoldsCursor(file')
               /\ outcome' = "saved_continue" => file'.cursor = JString(cursor'.s)
               /\ file'.total_processed = JNumber(file.total_processed.n + 1)]_vars

\* C17: in every reachable state, over any sequence of runs, failures and
\* restarts, each stored point is complete and valid: its id is its payload's
\* id, the payload has a non-empty prompt and an allow-listed model_name, and
\* the vector is the flat float sequence of the prompt's embedding.
C17_StoredPointsValid ==
    \A i \in Ids :
        store[i].present
            => /\ store[i].id = i
               /\ store[i].payload.id = store[i].id
               /\ Truthy(store[i].payload.prompt)
               /\ store[i].payload.model_name \in ALLOWED_MODELS
               /\ Len(store[i].vector) > 0
               /\ store[i].vector = VecOf(store[i].payload.prompt)

C17_Witness ==
    /\ pc = "killed"
    /\ store[1].present
    /\ store[1].payload = Record(1, PyStr("a dog"), "Pony")
    /\ file = InvalidJson

\* The shapes the claim names: a single flat vector as a plain list, a
\* singleton list holding one vector (a list or an array), a numeric array.
FlatShapes == {"flat_list", "list_of_list", "list_of_array", "ndarray"}

\* The points C18 expects of one call: one per record that is no duplicate
\* and whose embedding comes in one of those shapes, with the flat vector.
RECURSIVE ExpectedPoints(_, _, _, _)
ExpectedPoints(records, shapes, before, i) ==
    IF i > Len(records) THEN <<>>
    ELSE LET r == records[i]
             rest == ExpectedPoints(records, shapes, before, i + 1)
         IN  IF CheckDuplicate(before, r.id, FALSE) \/ shapes[i] \notin FlatShapes
             THEN rest
             ELSE <<Point(r.id, VecOf(r.prompt), r)>> \o rest

\* C18: whichever of those shapes the embedder answers in, the record is
\* stored with the same flat float sequence; a record is skipped only when
\* its embedding cannot be turned into a flat numeric sequence, and the skip
\* does not abort the batch: the call returns and the other records are stored.
C18_EmbeddingNormalised ==
    wb.n > 0
        => /\ wb.returned
           /\ wb.submitted = Len(ExpectedPoints(wb.records, wb.shapes, wb.before, 1))
           /\ store = Upsert(wb.before, ExpectedPoints(wb.records, wb.shapes, wb.before, 1))

\* A required setting is missing or empty.
SomeSecretMissing(secrets) ==
    \E k \in {"CIVITAI_API_KEY", "QDRANT_URL", "QDRANT_API_KEY", "COLLECTION_NAME"} :
        secrets[k] \in {PyMissing, PyNone, PyStr("")}

\* C19: for every non-empty subset of the four required settings that is
\* missing or empty, constructing CivitaiDataFetcher raises and the process
\* ends failed: no page was requested, the store is untouched, and the state
\* file is neither created nor written.
C19_ConfigErrorFatal ==
    (cfg.n > 0 /\ SomeSecretMissing(cfg.secrets))
        => /\ cfg.raised
           /\ pc = "failed" /\ outcome = "config_error"
           /\ file = cfg.before
           /\ store = EmptyStore
           /\ ~request.sent

C19_Witness ==
    /\ cfg.n > 0
    /\ cfg.secrets = [GoodSecrets EXCEPT !["COLLECTION_NAME"] = PyStr("")]
    /\ cfg.before = Absent
    /\ file = Absent
    /\ pc = "failed"

\* The cursor a run that starts now would load from the state file.
PersistedCursor(f) == PyStr(GetSavedState(f, FALSE, "none").state[1])

\* The points of the first n records of a page of len valid items.
PointsOf(len, n) ==
    LET recs == ProcessItems(GenPage(len))
    IN  [i \in 1..n |-> Point(recs[i].id, VecOf(recs[i].prompt), recs[i])]

\* C20: when the upsert of sub-batch k fails inside one _store_in_qdrant
\* call, no sub-batch after k is submitted, the error reaches the caller, and
\* the points of sub-batches 1..k-1 are in the store; the run does not write
\* the state file for that page, so the persisted cursor still is the cursor
\* that page was requested with.
C20_SubBatchFailure ==
    [][(pc = "running" /\ outcome' = "store_error")
         => /\ pc' = "done"
            /\ wb'.submitted <= wb'.failAt * batch_size
            /\ store' = Upsert(store,
                               PointsOf(wb'.len, Min(wb'.len, (wb'.failAt - 1) * batch_size)))
            /\ file' = file
            /\ PersistedCursor(file') = request'.cursor]_vars

\* The non-duplicate points of the last direct call, in record order.
NewPoints ==
    LET recs == wb.records
        new == SelectSeq([i \in 1..Len(recs) |-> i], LAMBDA i :
                   ~CheckDuplicate(wb.before, recs[i].id, wb.lookupsFail))
    IN  [j \in 1..Len(new) |->
            Point(recs[new[j]].id, VecOf(recs[new[j]].prompt), recs[new[j]])]

\* C21: a call of _store_in_qdrant that returns has submitted its n
\* non-duplicate points in ceil(n/50) upsert calls, each carrying at least 1
\* and at most 50 points; the sub-batches in call order, one after the
\* other, are exactly the non-duplicate points in record order, each once;
\* with n = 0 no upsert call is made.
C21_SubBatches ==
    (wb.n > 0 /\ wb.returned)
        => LET n == Len(NewPoints)
           IN  /\ Len(wb.calls) = (n + 49) \div 50
               /\ \A c \in 1..Len(wb.calls) :
                     1 <= Len(wb.calls[c]) /\ Len(wb.calls[c]) <= 50
               /\ \A i \in 1..n :
                     /\ (i - 1) \div 50 + 1 <= Len(wb.calls)
                     /\ ((i - 1) % 50) + 1 <= Len(wb.calls[(i - 1) \div 50 + 1])
                     /\ wb.calls[(i - 1) \div 50 + 1][((i - 1) % 50) + 1] = NewPoints[i]
               /\ \A c \in 1..Len(wb.calls) :
                     (c - 1) * 50 + Len(wb.calls[c]) <= n

C21_Witness ==
    /\ wb.n > 0 /\ wb.returned
    /\ Len(wb.records) = 2 * batch_size + 1
    /\ Len(wb.calls) = 3
    /\ Len(wb.calls[3]) = 1

\* C22: the cursor the state file holds is empty or the nextCursor of a page
\* whose valid records were all handed to _store_in_qdrant without error:
\* the file takes a non-empty cursor only in the save that follows such a
\* call, it is that page's nextCursor, and every valid record of the page
\* then has its point in the store, so no page whose records were not
\* written lies before the persisted cursor.
C22_ResumeNeverSkips ==
    [][(file' # file /\ HoldsCursor(file'))
         => /\ pc = "stored" /\ page.n > 0
            /\ outcome' = "saved_continue" => file'.cursor = JString(cursor'.s)
            /\ \A id \in page.ids : store'[id].present]_vars

\* C23: after a run that started from an empty store and a state file at 0
\* (and ended without an error, its last page saved), the persisted
\* total_processed is the number of distinct ids in the store, also when
\* pages held ids already stored or records whose embedding was skipped.
C23_CountIsStored ==
    (pc = "done" /\ outcome \in {"target_reached", "no_cursor"} /\ unsaved = 0
       /\ file.k = "object" /\ file.total_processed.j = "number")
      => file.total_processed.n = Cardinality({i \in Ids : store[i].present})

\* C24: the target count is per run and is never exceeded.  Every run starts
\* with total_processed = 0 and with the cumulative value of the state file
\* in prev_processed; a page that brings at most `limit` records leaves
\* total_processed <= target_count; and the value a save writes to the state
\* file is prev_processed plus the run's total_processed.
C24_TargetPerRun ==
    [][/\ (Stopped /\ pc' = "running")
            => /\ total_processed' = 0
               /\ (outcome' = "start" /\ file'.k = "object"
                      /\ file'.total_processed.j = "number")
                    => prev_processed' = file'.total_processed.n
       /\ (pc' = "stored" /\ pending' <= request'.limit)
            => total_processed' + pending' <= target_count'
       /\ pc' \in {"running", "stored"} => total_processed' <= target_count'
       /\ (pc = "stored" /\ file' # file /\ file'.k = "object")
            => file'.total_processed = JNumber(prev_processed + total_processed + pending)
      ]_vars

C24_Witness ==
    /\ pc = "stored"
    /\ prev_processed = 1 /\ file.k = "object" /\ file.total_processed = JNumber(1)
    /\ target_count = 2 /\ total_processed = 1 /\ pending = 1
    /\ request.limit = 1

\* C25: the refiner's session is a state machine.  After every click
\* current_step is 'initial' or 'refining', and it is 'initial' exactly when
\* selected_keywords is empty; select_option appends exactly one keyword, sets
\* current_step to 'refining' and resets roll_count to 0 whether or not
\* options came back; reroll_options and enhance_current_prompt leave
\* selected_keywords and current_step as they were; and only Start Over
\* empties the session again.
C25_SessionStateMachine ==
    [][clicked' # NoCalls =>
        LET old == session_state
            new == session_state'
        IN  /\ new.current_step \in {"initial", "refining"}
            /\ (new.current_step = "initial") <=> (new.selected_keywords = <<>>)
            /\ clicked'.handler = "select_option"
                 => /\ Len(new.selected_keywords) = Len(old.selected_keywords) + 1
                    /\ SubSeq(new.selected_keywords, 1, Len(old.selected_keywords))
                         = old.selected_keywords
                    /\ new.current_step = "refining"
                    /\ new.roll_count = 0
            /\ clicked'.handler \in {"reroll_options", "enhance_current_prompt"}
                 => /\ new.selected_keywords = old.selected_keywords
                    /\ new.current_step = old.current_step
            /\ (new = initialize_session_state(Cleared) /\ new # old)
                 => clicked'.handler = "start_over"
      ]_vars

====
